---- MODULE Spec2Model ----
(***************************************************************************)
(* Group comparison pipeline of the STAI-S study scripts:                  *)
(*   Analyze_elements_groups.py (AEG), composite_analysis.py (CA) and      *)
(*   stai_analysis.py (STAI).                                              *)
(*                                                                         *)
(* Numbers.  p-values are integers in units of 1/10000 (0.05 is 500).      *)
(* Deltas are integers; means, sums of squares and eta-squared are         *)
(* numpy.float64 values, computed bit for bit.                             *)
(* The scipy.stats tests are library calls: their p-values are inputs of   *)
(* the step that calls them, drawn from small sets around the thresholds.  *)
(* Each element column of the data frame is read by one loop iteration     *)
(* only, so it is drawn when that iteration reads it.                      *)
(***************************************************************************)
EXTENDS Integers, Sequences, FiniteSets, TLC

VARIABLES
    script,           \* which of the three scripts is running
    pc,               \* position in the script
    idx,              \* position of the loop in ELEMENTS (1-based)
    Delta_STAI,       \* df['Delta_STAI'], one value per participant
    column,           \* df[col] for the element of the current iteration
    groups_data,      \* groups_data / group_arrays: one array of deltas per group
    group_names,      \* group_names: the label of each group
    all_normal,       \* all_normal
    called,           \* the scipy.stats comparison called by the current iteration
    p_value,          \* p_value (Unbound before its first assignment)
    p_dim,            \* the iteration that assigned p_value, test_name, stat_str
    test_name,        \* test_name
    stat_str,         \* stat_str (the statistic's letter)
    sig,              \* sig
    eta_squared,      \* eta_squared / eta_sq
    results_summary,  \* results_summary (AEG)
    out,              \* the last result block printed or drawn
    shapiro_a,        \* shapiro_a.pvalue (STAI)
    shapiro_b,        \* shapiro_b.pvalue (STAI)
    w_sig,            \* w_sig (STAI)
    valid_data,       \* valid_data of the current correlation (STAI)
    corr,             \* the last correlation block printed (STAI)
    h_fn,             \* function under unit evaluation
    h_in,             \* its argument
    h_out             \* its result

vars == <<script, pc, idx, Delta_STAI, column, groups_data, group_names,
          all_normal, called, p_value, p_dim, test_name, stat_str, sig,
          eta_squared, results_summary, out, shapiro_a, shapiro_b, w_sig,
          valid_data, corr, h_fn, h_in, h_out>>

-----------------------------------------------------------------------------
(* Bounds of the model *)

\* largest group size; group sizes are 0, SHAPIRO_MIN_N - 1 or MaxGroupN
MaxGroupN == 3
\* the deltas are k * (row - MaxGroupN) for k in 0..MaxSlope
MaxSlope == 1
\* p-values handed to the tiering functions range over 0..MaxP
MaxP == 600
\* the groups handed to the effect-size functions hold 1..MaxLen values
\* among -MaxVal and MaxVal
MaxVal == 1
MaxLen == 3
\* rows of the data frames handed to the group construction
MaxRows == 2

-----------------------------------------------------------------------------
(* Program constants *)

ALPHA_05 == 500
ALPHA_01 == 100
ALPHA_001 == 10
SHAPIRO_MIN_N == 3
MIN_GROUPS == 2
SPEARMAN_OVER == 2
Unbound == -1

ELEMENTS == <<"Element1_Obligation", "Element2_Burden", "Element3_Rejection">>
JUDGMENT_LABELS == <<"ValidCoping", "NoEffect", "Counterproductive">>
InsufficientData == "InsufficientData"
Labels == {"ValidCoping", "NoEffect", "Counterproductive", InsufficientData}

-----------------------------------------------------------------------------
(* Sequences *)

RECURSIVE Sum(_)
Sum(s) == IF s = <<>> THEN 0 ELSE Head(s) + Sum(Tail(s))

RECURSIVE Concat(_)
Concat(ss) == IF ss = <<>> THEN <<>> ELSE Head(ss) \o Concat(Tail(ss))

Reverse(s) == [i \in 1..Len(s) |-> s[Len(s) + 1 - i]]

-----------------------------------------------------------------------------
(* The data frame *)

\* df restricted to Delta_STAI and the element column `col`
Frame(deltas, labels, col) ==
    [i \in 1..Len(deltas) |->
        [f \in {"Delta_STAI", col} |->
            IF f = "Delta_STAI" THEN deltas[i] ELSE labels[i]]]

Values(subset) == [i \in 1..Len(subset) |-> subset[i]["Delta_STAI"]]

-----------------------------------------------------------------------------
(* Analyze_elements_groups.py: group construction *)

\* variant: rows with the sentinel in any element column are dropped
DfAnalysis_Listwise(df, col) ==
    SelectSeq(df, LAMBDA r :
        \A f \in (DOMAIN r) \ {"Delta_STAI"} : r[f] # InsufficientData)

\* df_analysis = df[df[col] != sentinel]
DfAnalysis(df, col) == SelectSeq(df, LAMBDA r : r[col] # InsufficientData)

\* the loop over the three labels that fills groups_data and group_names
RECURSIVE GroupLoopAEG(_, _, _)
GroupLoopAEG(df_analysis, col, labels) ==
    IF labels = <<>> THEN <<>>
    ELSE LET subset == SelectSeq(df_analysis, LAMBDA r : r[col] = Head(labels))
         IN  (IF Len(subset) > 0
              THEN <<[name |-> Head(labels), values |-> Values(subset)]>>
              ELSE <<>>)
             \o GroupLoopAEG(df_analysis, col, Tail(labels))

GroupsAEG(df, col) ==
    GroupLoopAEG(DfAnalysis(df, col), col,
                 <<"ValidCoping", "NoEffect", "Counterproductive">>)

-----------------------------------------------------------------------------
(* composite_analysis.py: group construction *)

DfElem(df, col) == SelectSeq(df, LAMBDA r : r[col] # InsufficientData)

\* the loop over JUDGMENT_LABELS that fills the dict `groups`
RECURSIVE GroupLoopCA(_, _, _)
GroupLoopCA(df_elem, col, labels) ==
    IF labels = <<>> THEN <<>>
    ELSE LET subset == SelectSeq(df_elem, LAMBDA r : r[col] = Head(labels))
         IN  (IF Len(subset) > 0
              THEN <<[name |-> Head(labels), values |-> Values(subset)]>>
              ELSE <<>>)
             \o GroupLoopCA(df_elem, col, Tail(labels))

GroupsCA(df, col) == GroupLoopCA(DfElem(df, col), col, JUDGMENT_LABELS)

Names(groups) == [i \in 1..Len(groups) |-> groups[i].name]
Arrays(groups) == [i \in 1..Len(groups) |-> groups[i].values]

-----------------------------------------------------------------------------
(* Normality screening.  ps[i] is what stats.shapiro returns for group i    *)
(* when it is called.                                                      *)

\* one pass of the loop body of AEG: the mark printed and the new all_normal
MarkAEG(data, p) ==
    IF Len(data) >= SHAPIRO_MIN_N
    THEN [ran |-> TRUE, normal |-> ~(p < ALPHA_05)]
    ELSE [ran |-> FALSE, normal |-> FALSE]

RECURSIVE ScreenLoopAEG(_, _, _, _)
ScreenLoopAEG(arrays, ps, marks, acc) ==
    IF arrays = <<>> THEN [marks |-> marks, all_normal |-> acc]
    ELSE LET m == MarkAEG(Head(arrays), Head(ps))
         IN  ScreenLoopAEG(Tail(arrays), Tail(ps), Append(marks, m),
                           IF m.normal THEN acc ELSE FALSE)

ScreenAEG(arrays, ps) == ScreenLoopAEG(arrays, ps, <<>>, TRUE)

\* variant: p = 0.05 counts as non-normal
MarkCA_Strict(gdata, p) ==
    IF Len(gdata) >= SHAPIRO_MIN_N
    THEN [ran |-> TRUE, normal |-> (p > ALPHA_05)]
    ELSE [ran |-> FALSE, normal |-> FALSE]

\* one pass of the loop body of CA
MarkCA(gdata, p) ==
    IF Len(gdata) >= SHAPIRO_MIN_N
    THEN [ran |-> TRUE, normal |-> (p >= ALPHA_05)]
    ELSE [ran |-> FALSE, normal |-> FALSE]

RECURSIVE ScreenLoopCA(_, _, _, _)
ScreenLoopCA(arrays, ps, marks, acc) ==
    IF arrays = <<>> THEN [marks |-> marks, all_normal |-> acc]
    ELSE LET m == MarkCA(Head(arrays), Head(ps))
         IN  ScreenLoopCA(Tail(arrays), Tail(ps), Append(marks, m),
                          IF ~m.normal THEN FALSE ELSE acc)

ScreenCA(arrays, ps) == ScreenLoopCA(arrays, ps, <<>>, TRUE)

-----------------------------------------------------------------------------
(* Test selection.  The result is the scipy.stats function that is called;  *)
(* "none" when no branch is taken.                                         *)

\* variant: unequal variances send the comparison to the rank tests
TestChoiceAEG_Levene(n_groups, normal, p_levene) ==
    IF n_groups = 2
    THEN (IF normal /\ p_levene >= ALPHA_05 THEN "ttest_ind" ELSE "mannwhitneyu")
    ELSE IF n_groups >= 3
         THEN (IF normal /\ p_levene >= ALPHA_05 THEN "f_oneway" ELSE "kruskal")
         ELSE "none"

\* p_levene is in scope where AEG selects the test
TestChoiceAEG(n_groups, normal, p_levene) ==
    IF n_groups = 2
    THEN (IF normal THEN "ttest_ind" ELSE "mannwhitneyu")
    ELSE IF n_groups >= 3
         THEN (IF normal THEN "f_oneway" ELSE "kruskal")
         ELSE "none"

TestChoiceCA(n_groups, normal) ==
    IF n_groups = 3
    THEN (IF normal THEN "f_oneway" ELSE "kruskal")
    ELSE IF n_groups = 2
         THEN (IF normal THEN "ttest_ind" ELSE "mannwhitneyu")
         ELSE "none"

\* test_name and the statistic's letter in stat_str, as CA sets them
TestNameCA(fn) ==
    CASE fn = "f_oneway"     -> [test_name |-> "ANOVA", stat_str |-> "F"]
      [] fn = "kruskal"      -> [test_name |-> "Kruskal-Wallis", stat_str |-> "H"]
      [] fn = "ttest_ind"    -> [test_name |-> "t-test", stat_str |-> "t"]
      [] fn = "mannwhitneyu" -> [test_name |-> "Mann-Whitney U", stat_str |-> "U"]

\* test_name as AEG derives it for the figure
PlotTestNameAEG(n_groups, normal) ==
    IF n_groups = 2
    THEN (IF normal THEN "t-test" ELSE "Mann-Whitney")
    ELSE (IF normal THEN "ANOVA" ELSE "Kruskal-Wallis")

-----------------------------------------------------------------------------
(* Significance tiers, one definition per place of the code *)

SigAEG(p) ==
    IF p < ALPHA_001 THEN "***"
    ELSE IF p < ALPHA_01 THEN "**"
    ELSE IF p < ALPHA_05 THEN "*"
    ELSE "n.s."

SigCA(p) ==
    IF p < ALPHA_001 THEN "***"
    ELSE IF p < ALPHA_01 THEN "**"
    ELSE IF p < ALPHA_05 THEN "*"
    ELSE "n.s."

SigPaired(t_pvalue) ==
    IF t_pvalue < ALPHA_001 THEN "***"
    ELSE IF t_pvalue < ALPHA_01 THEN "**"
    ELSE IF t_pvalue < ALPHA_05 THEN "*"
    ELSE "n.s."

SigWilcoxon(w_pvalue) ==
    IF w_pvalue < ALPHA_001 THEN "***"
    ELSE IF w_pvalue < ALPHA_01 THEN "**"
    ELSE IF w_pvalue < ALPHA_05 THEN "*"
    ELSE "n.s."

\* variant: inclusive comparison at 0.05
SigSpearman_Inclusive(p_val) ==
    IF p_val < ALPHA_001 THEN "***"
    ELSE IF p_val < ALPHA_01 THEN "**"
    ELSE IF p_val <= ALPHA_05 THEN "*"
    ELSE "n.s."

SigSpearman(p_val) ==
    IF p_val < ALPHA_001 THEN "***"
    ELSE IF p_val < ALPHA_01 THEN "**"
    ELSE IF p_val < ALPHA_05 THEN "*"
    ELSE "n.s."

-----------------------------------------------------------------------------
(* numpy.float64.  A value is (-1)^s * m * 2^e with the significand m a    *)
(* number of Mant bits; significands and the wider intermediate results    *)
(* are little-endian sequences of limbs of LimbBits bits, so that every    *)
(* product of two limbs fits the model checker's integers.  Every          *)
(* operation is the exact result rounded to nearest, ties to even.  The    *)
(* exponent is not bounded: with integer deltas no intermediate result     *)
(* leaves the range of the normal numbers.                                 *)

LimbBits == 14
Base == 2^LimbBits
Mant == 53
MantLimbs == 4
\* beyond this distance of exponents the smaller term of a sum is sticky
FarApart == 60

Limb(w, i) == IF i >= 1 /\ i <= Len(w) THEN w[i] ELSE 0

\* the low MantLimbs limbs, as a tuple
Fit(w) == [j \in 1..MantLimbs |-> Limb(w, j)] \o <<>>

BitsOf(x) ==
    IF x = 0 THEN 0 ELSE CHOOSE b \in 1..LimbBits : 2^(b - 1) <= x /\ x < 2^b

TopLimb(w) ==
    LET nz == {i \in 1..Len(w) : w[i] # 0}
    IN  IF nz = {} THEN 0 ELSE CHOOSE i \in nz : \A j \in nz : j <= i

BitLen(w) ==
    LET t == TopLimb(w)
    IN  IF t = 0 THEN 0 ELSE (t - 1) * LimbBits + BitsOf(w[t])

ShiftRight(w, k) ==
    LET ls == k \div LimbBits
        bs == k % LimbBits
        n == IF Len(w) - ls > 1 THEN Len(w) - ls ELSE 1
    IN  [i \in 1..n |->
            (Limb(w, i + ls) \div 2^bs)
            + (Limb(w, i + ls + 1) % 2^bs) * 2^(LimbBits - bs)] \o <<>>

ShiftLeft(w, k) ==
    LET ls == k \div LimbBits
        bs == k % LimbBits
    IN  [i \in 1..(Len(w) + ls + 1) |->
            (Limb(w, i - ls) % 2^(LimbBits - bs)) * 2^bs
            + (Limb(w, i - ls - 1) \div 2^(LimbBits - bs))] \o <<>>

Bit(w, k) == (Limb(w, (k \div LimbBits) + 1) \div 2^(k % LimbBits)) % 2

LowBitsZero(w, k) ==
    /\ \A i \in 1..(k \div LimbBits) : Limb(w, i) = 0
    /\ Limb(w, (k \div LimbBits) + 1) % 2^(k % LimbBits) = 0

RECURSIVE AddFrom(_, _, _, _)
AddFrom(a, b, i, c) ==
    IF i > Len(a) /\ i > Len(b)
    THEN IF c = 0 THEN <<>> ELSE <<c>>
    ELSE LET t == Limb(a, i) + Limb(b, i) + c
         IN  <<t % Base>> \o AddFrom(a, b, i + 1, t \div Base)

Add(a, b) == AddFrom(a, b, 1, 0)

\* a - b for a >= b
RECURSIVE SubFrom(_, _, _, _)
SubFrom(a, b, i, c) ==
    IF i > Len(a) /\ i > Len(b)
    THEN <<>>
    ELSE LET t == Limb(a, i) - Limb(b, i) - c
         IN  IF t < 0 THEN <<t + Base>> \o SubFrom(a, b, i + 1, 1)
                      ELSE <<t>> \o SubFrom(a, b, i + 1, 0)

Sub(a, b) == SubFrom(a, b, 1, 0)

\* -1, 0, 1 as a < b, a = b, a > b
Cmp(a, b) ==
    LET n == IF Len(a) > Len(b) THEN Len(a) ELSE Len(b)
        d == {i \in 1..n : Limb(a, i) # Limb(b, i)}
    IN  IF d = {} THEN 0
        ELSE LET t == CHOOSE i \in d : \A j \in d : j <= i
             IN  IF Limb(a, t) < Limb(b, t) THEN 0 - 1 ELSE 1

\* a * b for a of at most MantLimbs limbs
RECURSIVE MulFrom(_, _, _, _)
MulFrom(a, b, k, c) ==
    IF k > Len(a) + Len(b)
    THEN <<>>
    ELSE LET t == c + Limb(a, 1) * Limb(b, k) + Limb(a, 2) * Limb(b, k - 1)
                    + Limb(a, 3) * Limb(b, k - 2) + Limb(a, 4) * Limb(b, k - 3)
         IN  <<t % Base>> \o MulFrom(a, b, k + 1, t \div Base)

Mul(a, b) == MulFrom(a, b, 1, 0)

\* the largest q <= qhat with q * d <= r
RECURSIVE Digit(_, _, _)
Digit(r, d, qhat) ==
    IF Cmp(Mul(d, <<qhat>>), r) <= 0 THEN qhat ELSE Digit(r, d, qhat - 1)

\* long division: the remainder r < d is extended by i zero limbs, one limb
\* of quotient at a time; d has MantLimbs limbs and its top bit set
RECURSIVE DivFrom(_, _, _, _)

\* the limb q of the quotient is taken out of cur
DivTake(d, i, cur, quot, q) ==
    IF q = 0
    THEN DivFrom(d, i - 1, Fit(cur), <<q>> \o quot)
    ELSE DivFrom(d, i - 1, Fit(Sub(cur, Mul(d, <<q>>))), <<q>> \o quot)

\* the estimate of a limb of the quotient from the two top limbs of cur
Estimate(cur, d) ==
    LET est == (cur[MantLimbs + 1] * Base + cur[MantLimbs]) \div d[MantLimbs]
    IN  IF est < Base THEN est ELSE Base - 1

DivStep(d, i, cur, quot) == DivTake(d, i, cur, quot, Digit(cur, d, Estimate(cur, d)))

DivFrom(d, i, r, quot) ==
    IF i = 0
    THEN [quot |-> quot, rem |-> r]
    ELSE DivStep(d, i, <<0>> \o r, quot)

RECURSIVE ToLimbs(_)
ToLimbs(n) == IF n < Base THEN <<n>> ELSE <<n % Base>> \o ToLimbs(n \div Base)

FZero == [s |-> 0, e |-> 0, m |-> <<0, 0, 0, 0>>]
\* nan, and what a division by zero gives
NaN == [s |-> 0, e |-> 0, m |-> <<>>]
\* eta_squared / eta_sq before its first assignment
NoEta == [s |-> 0, e |-> Unbound, m |-> <<>>]

IsZero(x) == x.m = FZero.m

\* r is a significand of Mant bits, or 2^Mant after a carry
Carry(s, r, e) ==
    IF BitLen(r) > Mant
    THEN [s |-> s, e |-> e + 1, m |-> Fit(ShiftRight(r, 1))]
    ELSE [s |-> s, e |-> e, m |-> Fit(r)]

\* w without its k low bits, one more if they are above a half, or are a
\* half and the bit above them is odd
Nearest(w, k) ==
    IF Bit(w, k - 1) = 1 /\ (~LowBitsZero(w, k - 1) \/ Bit(w, k) = 1)
    THEN Add(ShiftRight(w, k), <<1>>)
    ELSE ShiftRight(w, k)

\* w has L bits
RoundBits(s, w, e, L) ==
    IF L = 0 THEN FZero
    ELSE IF L <= Mant
    THEN [s |-> s, e |-> e - (Mant - L), m |-> Fit(ShiftLeft(w, Mant - L))]
    ELSE Carry(s, Nearest(w, L - Mant), e + (L - Mant))

\* (-1)^s * w * 2^e rounded to nearest, ties to even
Round(s, w, e) == RoundBits(s, w, e, BitLen(w))

\* float(i)
FromInt(i) == IF i < 0 THEN Round(1, ToLimbs(0 - i), 0) ELSE Round(0, ToLimbs(i), 0)

FOne == FromInt(1)

FNeg(x) == IF x = NaN \/ IsZero(x) THEN x ELSE [x EXCEPT !.s = 1 - x.s]

\* (-1)^sx * wx + (-1)^sy * wy, times 2^e; c compares wx and wy
AddAligned(sx, wx, sy, wy, e, c) ==
    Round(IF sx = sy \/ c > 0 THEN sx ELSE sy,
          IF sx = sy THEN Add(wx, wy)
          ELSE IF c >= 0 THEN Sub(wx, wy) ELSE Sub(wy, wx),
          e)

\* wx * 2^e is the larger term
AddWords(sx, wx, sy, wy, e) == AddAligned(sx, wx, sy, wy, e, Cmp(wx, wy))

\* x + y for x.e >= y.e, neither of them zero
AddOrdered(x, y) ==
    IF x.e - y.e > FarApart
    THEN AddWords(x.s, ShiftLeft(x.m, FarApart), y.s, <<1>>, x.e - FarApart)
    ELSE AddWords(x.s, ShiftLeft(x.m, x.e - y.e), y.s, y.m, y.e)

\* x + y
FAdd(x, y) ==
    IF x = NaN \/ y = NaN THEN NaN
    ELSE IF IsZero(x) THEN y
    ELSE IF IsZero(y) THEN x
    ELSE IF x.e >= y.e THEN AddOrdered(x, y) ELSE AddOrdered(y, x)

\* x - y
FSub(x, y) == FAdd(x, FNeg(y))

\* x * y
FMul(x, y) ==
    IF x = NaN \/ y = NaN THEN NaN
    ELSE IF IsZero(x) \/ IsZero(y) THEN FZero
    ELSE Round((x.s + y.s) % 2, Mul(x.m, y.m), x.e + y.e)

\* the quotient q0.quot of the significands and a last limb that tells
\* whether a remainder is left
Quotient(sgn, q0, dm, e) ==
    IF dm.rem = FZero.m
    THEN Round(sgn, <<0>> \o dm.quot \o <<q0>>, e)
    ELSE Round(sgn, <<1>> \o dm.quot \o <<q0>>, e)

\* n / d for significands with their top bit at the top of the last limb
DivWords(sgn, n, d, e, q0) ==
    Quotient(sgn, q0,
             DivFrom(d, MantLimbs, IF q0 = 1 THEN Fit(Sub(n, d)) ELSE Fit(n), <<>>),
             e)

DivAligned(sgn, n, d, e) == DivWords(sgn, n, d, e, IF Cmp(n, d) >= 0 THEN 1 ELSE 0)

\* x / y
FDiv(x, y) ==
    IF x = NaN \/ y = NaN \/ IsZero(y) THEN NaN
    ELSE IF IsZero(x) THEN FZero
    ELSE DivAligned((x.s + y.s) % 2,
                    ShiftLeft(x.m, MantLimbs * LimbBits - Mant),
                    ShiftLeft(y.m, MantLimbs * LimbBits - Mant),
                    x.e - y.e - (MantLimbs + 1) * LimbBits)

\* x > 0
FPositive(x) == x # NaN /\ x.s = 0 /\ ~IsZero(x)

\* x <= y
FLe(x, y) == x # NaN /\ y # NaN /\ ~FPositive(FSub(x, y))

\* x ** 2
Sq(x) == FMul(x, x)

-----------------------------------------------------------------------------
(* Effect size *)

\* res += a[i], a[i + 1], ...
RECURSIVE SumFrom(_, _, _)
SumFrom(a, i, res) ==
    IF i > Len(a) THEN res
    ELSE IF IsZero(res) THEN SumFrom(a, i + 1, a[i])
    ELSE SumFrom(a, i + 1, FAdd(res, a[i]))

\* r[j] += a[8 * b + j] for the blocks b of 8 values after the first
RECURSIVE LaneFrom(_, _, _, _, _)
LaneFrom(a, j, b, blocks, r) ==
    IF b >= blocks THEN r ELSE LaneFrom(a, j, b + 1, blocks, FAdd(r, a[8 * b + j]))

\* ((r[1] + r[2]) + (r[3] + r[4])) + ((r[5] + r[6]) + (r[7] + r[8]))
RECURSIVE TreeSum(_, _, _)
TreeSum(r, lo, hi) ==
    IF lo = hi THEN r[lo]
    ELSE FAdd(TreeSum(r, lo, (lo + hi) \div 2),
              TreeSum(r, ((lo + hi) \div 2) + 1, hi))

\* np.sum of a float64 array of at most 128 values: numpy's pairwise
\* summation adds fewer than 8 values in order, and otherwise 8 interleaved
\* partial sums, combined as a tree, and then the values left over
pairwise_sum(a) ==
    IF Len(a) < 8 THEN SumFrom(a, 1, FZero)
    ELSE SumFrom(a, 8 * (Len(a) \div 8) + 1,
                 TreeSum([j \in 1..8 |-> LaneFrom(a, j, 1, Len(a) \div 8, a[j])] \o <<>>,
                         1, 8))

\* np.mean of integer deltas: their sum is exact, the division rounds; the
\* mean of no value is nan
Mean(g) == FDiv(FromInt(Sum(g)), FromInt(Len(g)))

\* len(g) * (np.mean(g) - grand_mean) ** 2
Between(g, grand_mean) == FMul(FromInt(Len(g)), Sq(FSub(Mean(g), grand_mean)))

\* sum(len(g) * (np.mean(g) - grand_mean) ** 2 for g in groups)
SsBetween(arrays, grand_mean) ==
    SumFrom([i \in 1..Len(arrays) |-> Between(arrays[i], grand_mean)] \o <<>>,
            1, FZero)

\* np.sum((all_data - grand_mean) ** 2)
SsTotal(all_data, grand_mean) ==
    pairwise_sum([i \in 1..Len(all_data) |->
                     Sq(FSub(FromInt(all_data[i]), grand_mean))] \o <<>>)

\* ss_between / ss_total if ss_total > 0 else 0
Ratio(ss_between, ss_total) ==
    IF FPositive(ss_total) THEN FDiv(ss_between, ss_total) ELSE FZero

EtaOf(arrays, all_data, grand_mean) ==
    Ratio(SsBetween(arrays, grand_mean), SsTotal(all_data, grand_mean))

\* eta_squared = ss_between / ss_total if ss_total > 0 else 0   (AEG)
EtaAEG(arrays) == EtaOf(arrays, Concat(arrays), Mean(Concat(arrays)))

\* calc_eta_squared (CA); np.concatenate raises on an empty list
calc_eta_squared(group_arrays) ==
    EtaOf(group_arrays, Concat(group_arrays), Mean(Concat(group_arrays)))

\* x >= y
FGe(x, y) == FLe(y, x)

\* the float64 literals 0.14, 0.06 and 0.01: the nearest float64 of a
\* decimal fraction is the rounded quotient of two integers
ETA_LARGE == FDiv(FromInt(14), FromInt(100))
ETA_MEDIUM == FDiv(FromInt(6), FromInt(100))
ETA_SMALL == FDiv(FromInt(1), FromInt(100))

\* the label printed after eta_squared (AEG)
EtaLabelAEG(eta) ==
    IF FGe(eta, ETA_LARGE) THEN "Large"
    ELSE IF FGe(eta, ETA_MEDIUM) THEN "Medium"
    ELSE IF FGe(eta, ETA_SMALL) THEN "Small"
    ELSE "Negligible"

\* classify_eta_sq (CA)
classify_eta_sq(eta_sq) ==
    IF FGe(eta_sq, ETA_LARGE) THEN "Large"
    ELSE IF FGe(eta_sq, ETA_MEDIUM) THEN "Medium"
    ELSE IF FGe(eta_sq, ETA_SMALL) THEN "Small"
    ELSE "Negligible"

-----------------------------------------------------------------------------
(* Inputs *)

NObs == 3 * MaxGroupN
CountVals == {0, SHAPIRO_MIN_N - 1, MaxGroupN}

\* a rows ValidCoping, b rows NoEffect, c rows Counterproductive, the rest
\* InsufficientData
Block(a, b, c) ==
    [i \in 1..NObs |->
        IF i <= a THEN "ValidCoping"
        ELSE IF i <= a + b THEN "NoEffect"
        ELSE IF i <= a + b + c THEN "Counterproductive"
        ELSE InsufficientData]

\* the element columns a loop iteration may read, in both row orders
Columns ==
    UNION {{Block(a, b, c), Reverse(Block(a, b, c))} :
              a \in CountVals, b \in CountVals, c \in CountVals}

DeltaVectors == {[i \in 1..NObs |-> k * (i - MaxGroupN)] : k \in 0..MaxSlope}

\* the group_arrays an iteration of either loop can build
LoopArrays ==
    {Arrays(GroupsAEG(Frame(d, c, ELEMENTS[1]), ELEMENTS[1])) :
        d \in DeltaVectors, c \in Columns}
    \cup {Arrays(GroupsCA(Frame(d, c, ELEMENTS[1]), ELEMENTS[1])) :
        d \in DeltaVectors, c \in Columns}

\* the effect sizes of these, computed once
EtaTableAEG == {[arg |-> a, eta |-> EtaAEG(a)] : a \in LoopArrays \ {<<>>}}
EtaTableCA == {[arg |-> a, eta |-> calc_eta_squared(a)] : a \in LoopArrays \ {<<>>}}

Tabulated(table, a) == (CHOOSE t \in table : t.arg = a).eta

\* what stats.shapiro and stats.levene may return
ShapiroPs == {ALPHA_05 - 1, ALPHA_05, ALPHA_05 + 1}
LevenePs == {ALPHA_05 - 1, ALPHA_05}
\* what the comparison tests may return
TestPs == {ALPHA_05 - 1, ALPHA_05}

NoOut == [dim |-> 0, test_name |-> "unbound", stat_str |-> "unbound",
          p_value |-> Unbound, sig |-> "unbound", eta |-> NoEta, src |-> 0]
NoCorr == [dim |-> 0, n |-> 0, computed |-> FALSE, sig_mark |-> "unbound"]

NoUnit == h_fn = "none" /\ h_in = <<>> /\ h_out = <<>>

\* every variable of the scripts before the first statement
Fresh ==
    /\ pc = "start"
    /\ idx = 1
    /\ column = <<>>
    /\ groups_data = <<>>
    /\ group_names = <<>>
    /\ all_normal = FALSE
    /\ called = "none"
    /\ p_value = Unbound
    /\ p_dim = 0
    /\ test_name = "unbound"
    /\ stat_str = "unbound"
    /\ sig = "unbound"
    /\ eta_squared = NoEta
    /\ results_summary = <<>>
    /\ out = NoOut
    /\ shapiro_a = Unbound
    /\ shapiro_b = Unbound
    /\ w_sig = "unbound"
    /\ valid_data = <<>>
    /\ corr = NoCorr

Init ==
    /\ script \in {"AEG", "CA", "STAI"}
    /\ Delta_STAI \in DeltaVectors
    /\ Fresh
    /\ NoUnit

unit_vars == <<h_fn, h_in, h_out>>
stai_vars == <<shapiro_a, shapiro_b, w_sig, valid_data, corr>>
data_vars == <<script, Delta_STAI>>

-----------------------------------------------------------------------------
(* composite_analysis.py *)

\* read_csv and step 1, Delta_STAI = B_Score - A_Score
CA_Load ==
    /\ script = "CA" /\ pc = "start"
    /\ pc' = "loop"
    /\ UNCHANGED <<idx, column, groups_data, group_names, all_normal, called,
                   p_value, p_dim, test_name, stat_str, sig, eta_squared,
                   results_summary, out>>
    /\ UNCHANGED <<data_vars, stai_vars, unit_vars>>

\* step 2: df_elem, groups, group_names, group_arrays, n_groups
CA_Groups ==
    /\ script = "CA" /\ pc = "loop" /\ idx <= Len(ELEMENTS)
    /\ \E c \in Columns :
          LET groups == GroupsCA(Frame(Delta_STAI, c, ELEMENTS[idx]), ELEMENTS[idx])
          IN  /\ column' = c
              /\ group_names' = Names(groups)
              /\ groups_data' = Arrays(groups)
    /\ called' = "none"
    /\ pc' = "normality"
    /\ UNCHANGED <<idx, all_normal, p_value, p_dim, test_name, stat_str, sig,
                   eta_squared, results_summary, out>>
    /\ UNCHANGED <<data_vars, stai_vars, unit_vars>>

\* step 3: the Shapiro-Wilk loop
CA_Normality ==
    /\ script = "CA" /\ pc = "normality"
    /\ \E ps \in [1..Len(groups_data) -> ShapiroPs] :
          all_normal' = ScreenCA(groups_data, ps).all_normal
    /\ pc' = "select"
    /\ UNCHANGED <<idx, column, groups_data, group_names, called, p_value, p_dim,
                   test_name, stat_str, sig, eta_squared, results_summary, out>>
    /\ UNCHANGED <<data_vars, stai_vars, unit_vars>>

\* step 4: if n_groups == 3 ... elif n_groups == 2 ...
CA_Select ==
    /\ script = "CA" /\ pc = "select"
    /\ LET fn == TestChoiceCA(Len(groups_data), all_normal)
       IN  IF fn = "none"
           THEN UNCHANGED <<called, p_value, p_dim, test_name, stat_str>>
           ELSE /\ called' = fn
                /\ \E p \in TestPs : p_value' = p
                /\ p_dim' = idx
                /\ test_name' = TestNameCA(fn).test_name
                /\ stat_str' = TestNameCA(fn).stat_str
    /\ pc' = "tier"
    /\ UNCHANGED <<idx, column, groups_data, group_names, all_normal, sig,
                   eta_squared, results_summary, out>>
    /\ UNCHANGED <<data_vars, stai_vars, unit_vars>>

\* the significance tier; reading p_value before any assignment is a NameError
CA_Tier ==
    /\ script = "CA" /\ pc = "tier"
    /\ IF p_value = Unbound
       THEN pc' = "aborted" /\ UNCHANGED sig
       ELSE pc' = "print" /\ sig' = SigCA(p_value)
    /\ UNCHANGED <<idx, column, groups_data, group_names, all_normal, called,
                   p_value, p_dim, test_name, stat_str, eta_squared,
                   results_summary, out>>
    /\ UNCHANGED <<data_vars, stai_vars, unit_vars>>

\* the two print calls reporting the chosen test and its result
CA_Print ==
    /\ script = "CA" /\ pc = "print"
    /\ out' = [dim |-> idx, test_name |-> test_name, stat_str |-> stat_str,
               p_value |-> p_value, sig |-> sig, eta |-> NoEta, src |-> p_dim]
    /\ pc' = "effect"
    /\ UNCHANGED <<idx, column, groups_data, group_names, all_normal, called,
                   p_value, p_dim, test_name, stat_str, sig, eta_squared,
                   results_summary>>
    /\ UNCHANGED <<data_vars, stai_vars, unit_vars>>

\* eta_sq = calc_eta_squared(group_arrays), printed; np.concatenate of an
\* empty list raises ValueError
CA_Effect ==
    /\ script = "CA" /\ pc = "effect"
    /\ IF groups_data = <<>>
       THEN pc' = "aborted" /\ UNCHANGED <<eta_squared, out>>
       ELSE /\ eta_squared' = Tabulated(EtaTableCA, groups_data)
            /\ out' = [out EXCEPT !.eta = Tabulated(EtaTableCA, groups_data)]
            /\ pc' = "latex"
    /\ UNCHANGED <<idx, column, groups_data, group_names, all_normal, called,
                   p_value, p_dim, test_name, stat_str, sig, results_summary>>
    /\ UNCHANGED <<data_vars, stai_vars, unit_vars>>

\* the LaTeX summary line, then the next element
CA_Latex ==
    /\ script = "CA" /\ pc = "latex"
    /\ idx' = idx + 1
    /\ pc' = "loop"
    /\ UNCHANGED <<column, groups_data, group_names, all_normal, called,
                   p_value, p_dim, test_name, stat_str, sig, eta_squared,
                   results_summary, out>>
    /\ UNCHANGED <<data_vars, stai_vars, unit_vars>>

CA_Done ==
    /\ script = "CA" /\ pc = "loop" /\ idx > Len(ELEMENTS)
    /\ pc' = "done"
    /\ UNCHANGED <<idx, column, groups_data, group_names, all_normal, called,
                   p_value, p_dim, test_name, stat_str, sig, eta_squared,
                   results_summary, out>>
    /\ UNCHANGED <<data_vars, stai_vars, unit_vars>>

-----------------------------------------------------------------------------
(* Analyze_elements_groups.py *)

main_vars == <<idx, column, groups_data, group_names, all_normal, called,
               p_value, p_dim, test_name, stat_str, sig, eta_squared,
               results_summary, out>>

\* read_csv, makedirs, results_summary = []
AEG_Load ==
    /\ script = "AEG" /\ pc = "start"
    /\ pc' = "loop"
    /\ UNCHANGED <<main_vars, data_vars, stai_vars, unit_vars>>

\* df_analysis, the descriptive statistics, groups_data and group_names
AEG_Groups ==
    /\ script = "AEG" /\ pc = "loop" /\ idx <= Len(ELEMENTS)
    /\ \E c \in Columns :
          LET groups == GroupsAEG(Frame(Delta_STAI, c, ELEMENTS[idx]), ELEMENTS[idx])
          IN  /\ column' = c
              /\ group_names' = Names(groups)
              /\ groups_data' = Arrays(groups)
    /\ called' = "none"
    /\ pc' = "compare"
    /\ UNCHANGED <<idx, all_normal, p_value, p_dim, test_name, stat_str, sig,
                   eta_squared, results_summary, out>>
    /\ UNCHANGED <<data_vars, stai_vars, unit_vars>>

\* if len(groups_data) >= 2: the Shapiro-Wilk loop
AEG_Normality ==
    /\ script = "AEG" /\ pc = "compare" /\ Len(groups_data) >= MIN_GROUPS
    /\ \E ps \in [1..Len(groups_data) -> ShapiroPs] :
          all_normal' = ScreenAEG(groups_data, ps).all_normal
    /\ pc' = "test"
    /\ UNCHANGED <<idx, column, groups_data, group_names, called, p_value, p_dim,
                   test_name, stat_str, sig, eta_squared, results_summary, out>>
    /\ UNCHANGED <<data_vars, stai_vars, unit_vars>>

\* Levene's test when every group has 2 values or more, then the comparison
AEG_Test ==
    /\ script = "AEG" /\ pc = "test"
    /\ \E p_levene \in LevenePs, p \in TestPs :
          /\ called' = TestChoiceAEG(Len(groups_data), all_normal, p_levene)
          /\ p_value' = p
    /\ p_dim' = idx
    /\ pc' = "sig"
    /\ UNCHANGED <<idx, column, groups_data, group_names, all_normal,
                   test_name, stat_str, sig, eta_squared, results_summary, out>>
    /\ UNCHANGED <<data_vars, stai_vars, unit_vars>>

\* the significance tier
AEG_Sig ==
    /\ script = "AEG" /\ pc = "sig"
    /\ sig' = SigAEG(p_value)
    /\ pc' = "effect"
    /\ UNCHANGED <<idx, column, groups_data, group_names, all_normal, called,
                   p_value, p_dim, test_name, stat_str, eta_squared,
                   results_summary, out>>
    /\ UNCHANGED <<data_vars, stai_vars, unit_vars>>

\* eta_squared
AEG_Effect ==
    /\ script = "AEG" /\ pc = "effect"
    /\ eta_squared' = Tabulated(EtaTableAEG, groups_data)
    /\ pc' = "append"
    /\ UNCHANGED <<idx, column, groups_data, group_names, all_normal, called,
                   p_value, p_dim, test_name, stat_str, sig, results_summary, out>>
    /\ UNCHANGED <<data_vars, stai_vars, unit_vars>>

\* results_summary.append({...})
AEG_Append ==
    /\ script = "AEG" /\ pc = "append"
    /\ results_summary' = Append(results_summary,
          [Element |-> ELEMENTS[idx], n_groups |-> Len(groups_data),
           group_names |-> group_names, p_value |-> p_value,
           significance |-> sig, effect_size |-> eta_squared])
    /\ pc' = "plot"
    /\ UNCHANGED <<idx, column, groups_data, group_names, all_normal, called,
                   p_value, p_dim, test_name, stat_str, sig, eta_squared, out>>
    /\ UNCHANGED <<data_vars, stai_vars, unit_vars>>

\* variant: results_summary.append is outside the if block
AEG_Skip_Append ==
    /\ script = "AEG" /\ pc = "compare" /\ ~(Len(groups_data) >= MIN_GROUPS)
    /\ results_summary' = Append(results_summary,
          [Element |-> ELEMENTS[idx], n_groups |-> Len(groups_data),
           group_names |-> group_names, p_value |-> p_value,
           significance |-> sig, effect_size |-> NaN])
    /\ pc' = "plot"
    /\ UNCHANGED <<idx, column, groups_data, group_names, all_normal, called,
                   p_value, p_dim, test_name, stat_str, sig, eta_squared, out>>
    /\ UNCHANGED <<data_vars, stai_vars, unit_vars>>

\* fewer than 2 groups: the comparison block is not entered
AEG_Skip ==
    /\ script = "AEG" /\ pc = "compare" /\ ~(Len(groups_data) >= MIN_GROUPS)
    /\ pc' = "plot"
    /\ UNCHANGED <<main_vars, data_vars, stai_vars, unit_vars>>

\* if len(groups_data) >= 2: the box plot with its annotation; next element
AEG_Plot ==
    /\ script = "AEG" /\ pc = "plot"
    /\ IF Len(groups_data) >= MIN_GROUPS
       THEN /\ test_name' = PlotTestNameAEG(Len(groups_data), all_normal)
            /\ out' = [dim |-> idx,
                       test_name |-> PlotTestNameAEG(Len(groups_data), all_normal),
                       stat_str |-> "unbound", p_value |-> p_value, sig |-> sig,
                       eta |-> eta_squared, src |-> p_dim]
       ELSE UNCHANGED <<test_name, out>>
    /\ idx' = idx + 1
    /\ pc' = "loop"
    /\ UNCHANGED <<column, groups_data, group_names, all_normal, called,
                   p_value, p_dim, stat_str, sig, eta_squared, results_summary>>
    /\ UNCHANGED <<data_vars, stai_vars, unit_vars>>

\* summary_df = pd.DataFrame(results_summary); to_csv
AEG_Summary ==
    /\ script = "AEG" /\ pc = "loop" /\ idx > Len(ELEMENTS)
    /\ pc' = "done"
    /\ UNCHANGED <<main_vars, data_vars, stai_vars, unit_vars>>

-----------------------------------------------------------------------------
(* stai_analysis.py *)

\* if shapiro_a.pvalue > 0.05 and shapiro_b.pvalue > 0.05
PairedChoice(pa, pb) ==
    IF pa > ALPHA_05 /\ pb > ALPHA_05
    THEN "Paired t-test"
    ELSE "Wilcoxon signed-rank test (recommended)"

\* element_mapping; a missing value (np.nan) is the empty sequence
element_mapping(label) ==
    CASE label = "ValidCoping"       -> <<1>>
      [] label = "NoEffect"          -> <<0>>
      [] label = "Counterproductive" -> <<0 - 1>>
      [] label = InsufficientData    -> <<>>

\* df_clean[[elem_score, 'Delta_STAI']].dropna()
ValidData(deltas, labels) ==
    SelectSeq([i \in 1..Len(deltas) |->
                  [score |-> element_mapping(labels[i]), delta |-> deltas[i]]],
              LAMBDA r : r.score # <<>>)

\* variant: two pairs are enough
SpearmanRuns_Two(data) == Len(data) >= SPEARMAN_OVER

\* if len(valid_data) > 2
SpearmanRuns(data) == Len(data) > SPEARMAN_OVER

\* read_csv, df_clean, Delta_STAI
STAI_Load ==
    /\ script = "STAI" /\ pc = "start"
    /\ pc' = "shapiro"
    /\ UNCHANGED <<main_vars, data_vars, stai_vars, unit_vars>>

\* section 1: Shapiro-Wilk on A_Score and on B_Score, test_name
STAI_Shapiro ==
    /\ script = "STAI" /\ pc = "shapiro"
    /\ \E pa \in ShapiroPs, pb \in ShapiroPs :
          /\ shapiro_a' = pa
          /\ shapiro_b' = pb
          /\ test_name' = PairedChoice(pa, pb)
    /\ pc' = "ttest"
    /\ UNCHANGED <<idx, column, groups_data, group_names, all_normal, called,
                   p_value, p_dim, stat_str, sig, eta_squared, results_summary,
                   out, w_sig, valid_data, corr>>
    /\ UNCHANGED <<data_vars, unit_vars>>

\* stats.ttest_rel, its tier and Cohen's d
STAI_TTest ==
    /\ script = "STAI" /\ pc = "ttest"
    /\ \E t_pvalue \in TestPs :
          /\ p_value' = t_pvalue
          /\ sig' = SigPaired(t_pvalue)
    /\ pc' = "wilcoxon"
    /\ UNCHANGED <<idx, column, groups_data, group_names, all_normal, called,
                   p_dim, test_name, stat_str, eta_squared, results_summary, out>>
    /\ UNCHANGED <<data_vars, stai_vars, unit_vars>>

\* section 2: stats.wilcoxon and its tier; section 3: the element mapping
STAI_Wilcoxon ==
    /\ script = "STAI" /\ pc = "wilcoxon"
    /\ \E w_pvalue \in TestPs : w_sig' = SigWilcoxon(w_pvalue)
    /\ pc' = "loop"
    /\ UNCHANGED <<main_vars, data_vars, shapiro_a, shapiro_b, valid_data, corr,
                   unit_vars>>

\* valid_data for the next element
STAI_Valid ==
    /\ script = "STAI" /\ pc = "loop" /\ idx <= Len(ELEMENTS)
    /\ \E c \in Columns :
          /\ column' = c
          /\ valid_data' = ValidData(Delta_STAI, c)
    /\ pc' = "corr"
    /\ UNCHANGED <<idx, groups_data, group_names, all_normal, called, p_value,
                   p_dim, test_name, stat_str, sig, eta_squared, results_summary,
                   out, shapiro_a, shapiro_b, w_sig, corr>>
    /\ UNCHANGED <<data_vars, unit_vars>>

\* stats.spearmanr and its tier, or the insufficient-data message
STAI_Spearman ==
    /\ script = "STAI" /\ pc = "corr"
    /\ IF SpearmanRuns(valid_data)
       THEN \E p_val \in TestPs :
               corr' = [dim |-> idx, n |-> Len(valid_data), computed |-> TRUE,
                        sig_mark |-> SigSpearman(p_val)]
       ELSE corr' = [dim |-> idx, n |-> Len(valid_data), computed |-> FALSE,
                     sig_mark |-> "unbound"]
    /\ idx' = idx + 1
    /\ pc' = "loop"
    /\ UNCHANGED <<column, groups_data, group_names, all_normal, called, p_value,
                   p_dim, test_name, stat_str, sig, eta_squared, results_summary,
                   out, shapiro_a, shapiro_b, w_sig, valid_data>>
    /\ UNCHANGED <<data_vars, unit_vars>>

\* section 4 and the closing text
STAI_Describe ==
    /\ script = "STAI" /\ pc = "loop" /\ idx > Len(ELEMENTS)
    /\ pc' = "done"
    /\ UNCHANGED <<main_vars, data_vars, stai_vars, unit_vars>>

Next ==
    \/ STAI_Load \/ STAI_Shapiro \/ STAI_TTest \/ STAI_Wilcoxon \/ STAI_Valid
    \/ STAI_Spearman \/ STAI_Describe
    \/ AEG_Load \/ AEG_Groups \/ AEG_Normality \/ AEG_Test \/ AEG_Sig
    \/ AEG_Effect \/ AEG_Append \/ AEG_Skip \/ AEG_Plot \/ AEG_Summary
    \/ CA_Load \/ CA_Groups \/ CA_Normality \/ CA_Select \/ CA_Tier
    \/ CA_Print \/ CA_Effect \/ CA_Latex \/ CA_Done

Spec == Init /\ [][Next]_vars

-----------------------------------------------------------------------------
(* Unit evaluation of the pure functions: the argument is drawn in the      *)
(* initial state, one step applies the function.                           *)

Unit(fns, args) ==
    /\ script = "unit"
    /\ Delta_STAI = <<>>
    /\ Fresh
    /\ h_fn \in fns
    /\ h_in \in args
    /\ h_out = <<>>

Apply(fn, result) ==
    /\ script = "unit" /\ pc = "start" /\ h_fn = fn
    /\ h_out' = result
    /\ pc' = "return"
    /\ UNCHANGED <<main_vars, data_vars, stai_vars, h_fn, h_in>>

Returned(fn) == script = "unit" /\ pc = "return" /\ h_fn = fn

(* significance tiers *)

InitTier ==
    Unit({"SigAEG", "SigCA", "SigPaired", "SigWilcoxon", "SigSpearman"}, 0..MaxP)

TierAEG == Apply("SigAEG", SigAEG(h_in))
TierCA == Apply("SigCA", SigCA(h_in))
TierPaired == Apply("SigPaired", SigPaired(h_in))
TierWilcoxon == Apply("SigWilcoxon", SigWilcoxon(h_in))
TierSpearman == Apply("SigSpearman", SigSpearman(h_in))

NextTier == TierAEG \/ TierCA \/ TierPaired \/ TierWilcoxon \/ TierSpearman

SpecTier == InitTier /\ [][NextTier]_vars

(* effect size *)

\* the arrays of 1..MaxLen values: a first value and its repetitions or
\* those of another value, among -MaxVal and MaxVal
UnitArrays ==
    {[i \in 1..n |-> IF i = 1 THEN v ELSE w] :
        n \in 1..MaxLen, v \in {0 - MaxVal, MaxVal}, w \in {0 - MaxVal, MaxVal}}

\* 2 or 3 groups
UnitGroupLists ==
    UNION {[1..k -> UnitArrays] : k \in MIN_GROUPS..Len(JUDGMENT_LABELS)}

InitEta == Unit({"EtaAEG", "calc_eta_squared"}, UnitGroupLists)

EffectAEG == Apply("EtaAEG", EtaAEG(h_in))
EffectCA == Apply("calc_eta_squared", calc_eta_squared(h_in))

NextEta == EffectAEG \/ EffectCA

SpecEta == InitEta /\ [][NextEta]_vars

(* normality screening *)

\* groups of 1..MaxGroupN values, each with the p-value stats.shapiro
\* returns for it when it is called
ScreenInputs ==
    UNION {[arrays : [1..k -> UNION {[1..n -> {0}] : n \in 1..MaxGroupN}],
            ps : [1..k -> ShapiroPs]] : k \in 0..Len(JUDGMENT_LABELS)}

InitScreen ==
    /\ Unit({"ScreenAEG", "ScreenCA"}, ScreenInputs)
    /\ h_fn = "ScreenAEG" => Len(h_in.arrays) >= MIN_GROUPS

NormalityAEG == Apply("ScreenAEG", ScreenAEG(h_in.arrays, h_in.ps))
NormalityCA == Apply("ScreenCA", ScreenCA(h_in.arrays, h_in.ps))

NextScreen == NormalityAEG \/ NormalityCA

SpecScreen == InitScreen /\ [][NextScreen]_vars

(* group construction *)

ElementSet == {ELEMENTS[i] : i \in 1..Len(ELEMENTS)}

\* the data frames of MaxRows participants with the three element columns;
\* the delta of row i is i - MaxRows
UnitFrames ==
    {[i \in 1..MaxRows |->
         [f \in {"Delta_STAI"} \cup ElementSet |->
             IF f = "Delta_STAI" THEN i - MaxRows ELSE ls[i][f]]] :
        ls \in [1..MaxRows -> [ElementSet -> Labels]]}

InitGroups == Unit({"GroupsAEG", "GroupsCA"}, UnitFrames)

\* the group construction of each pass of the loop over the elements
BuildAEG == Apply("GroupsAEG", [col \in ElementSet |-> GroupsAEG(h_in, col)])
BuildCA == Apply("GroupsCA", [col \in ElementSet |-> GroupsCA(h_in, col)])

NextGroups == BuildAEG \/ BuildCA

SpecGroups == InitGroups /\ [][NextGroups]_vars

(* the comparison core: one pass of the loop over the elements, as a      *)
(* function of the data frame, of what scipy.stats returns, and of the     *)
(* p_value the pass before left behind                                     *)

\* the deltas of the loop and deltas that are not monotone in the row
CoreDeltas ==
    DeltaVectors \cup {[i \in 1..NObs |-> (i * i) % (k + 2)] : k \in 0..MaxSlope}

CoreArrays ==
    {Arrays(GroupsAEG(Frame(d, c, ELEMENTS[1]), ELEMENTS[1])) :
        d \in CoreDeltas, c \in Columns}
    \cup {Arrays(GroupsCA(Frame(d, c, ELEMENTS[1]), ELEMENTS[1])) :
        d \in CoreDeltas, c \in Columns}

\* the effect sizes of these, computed once
CoreTableAEG == {[arg |-> a, eta |-> EtaAEG(a)] : a \in CoreArrays \ {<<>>}}
CoreTableCA == {[arg |-> a, eta |-> calc_eta_squared(a)] : a \in CoreArrays \ {<<>>}}

\* what the comparison tests may return: around every threshold
CorePs == {ALPHA_001 - 1, ALPHA_001, ALPHA_01 - 1, ALPHA_01, ALPHA_05 - 1, ALPHA_05}

CoreInputs ==
    [deltas : CoreDeltas, labels : Columns,
     ps : [1..Len(JUDGMENT_LABELS) -> ShapiroPs],
     p : CorePs, prior : {Unbound, ALPHA_05 - 1}]

\* nothing is reported for the dimension
NoComparison(groups) ==
    [reported |-> FALSE, aborted |-> FALSE, group_names |-> Names(groups),
     group_arrays |-> Arrays(groups), all_normal |-> FALSE, test |-> "none",
     sig |-> "unbound", eta_label |-> "unbound"]

\* the pass of Analyze_elements_groups.py from its groups on
ComparisonAEG(groups, ps, p, p_levene) ==
    IF Len(groups) >= MIN_GROUPS
    THEN [reported |-> TRUE, aborted |-> FALSE, group_names |-> Names(groups),
          group_arrays |-> Arrays(groups),
          all_normal |-> ScreenAEG(Arrays(groups), ps).all_normal,
          test |-> TestChoiceAEG(Len(groups),
                                 ScreenAEG(Arrays(groups), ps).all_normal, p_levene),
          sig |-> SigAEG(p),
          eta_label |-> EtaLabelAEG(Tabulated(CoreTableAEG, Arrays(groups)))]
    ELSE NoComparison(groups)

CompareAEG(df, col, ps, p, p_levene) ==
    ComparisonAEG(GroupsAEG(df, col), ps, p, p_levene)

\* the pass of composite_analysis.py from the selected test on: p_value is
\* the one the pass before left when no test is called, and reading it
\* raises NameError when there is none; np.concatenate raises ValueError
\* for no group, after the test result is printed
ReportCA(groups, normal, test, p_read) ==
    IF p_read = Unbound
    THEN [NoComparison(groups) EXCEPT !.aborted = TRUE, !.all_normal = normal]
    ELSE [reported |-> TRUE, aborted |-> groups = <<>>,
          group_names |-> Names(groups), group_arrays |-> Arrays(groups),
          all_normal |-> normal, test |-> test, sig |-> SigCA(p_read),
          eta_label |-> IF groups = <<>> THEN "unbound"
                        ELSE classify_eta_sq(Tabulated(CoreTableCA, Arrays(groups)))]

SelectCA(groups, normal, p, prior) ==
    ReportCA(groups, normal, TestChoiceCA(Len(groups), normal),
             IF TestChoiceCA(Len(groups), normal) = "none" THEN prior ELSE p)

\* the pass of composite_analysis.py from its groups on
ComparisonCA(groups, ps, p, prior) ==
    SelectCA(groups, ScreenCA(Arrays(groups), ps).all_normal, p, prior)

CompareCA(df, col, ps, p, prior) == ComparisonCA(GroupsCA(df, col), ps, p, prior)

CoreFrame(in) == Frame(in.deltas, in.labels, ELEMENTS[1])

InitCore == Unit({"CompareAEG", "CompareCA"}, CoreInputs)

CoreAEG ==
    \E p_levene \in LevenePs :
        Apply("CompareAEG",
              CompareAEG(CoreFrame(h_in), ELEMENTS[1], h_in.ps, h_in.p, p_levene))

CoreCA ==
    Apply("CompareCA",
          CompareCA(CoreFrame(h_in), ELEMENTS[1], h_in.ps, h_in.p, h_in.prior))

NextCore == CoreAEG \/ CoreCA

SpecCore == InitCore /\ [][NextCore]_vars

-----------------------------------------------------------------------------
(* Properties *)

ValidLabels == {JUDGMENT_LABELS[i] : i \in 1..Len(JUDGMENT_LABELS)}

\* the current iteration has built its groups
InIteration ==
    \/ script = "AEG" /\ pc \in {"compare", "test", "sig", "effect", "append", "plot"}
    \/ script = "CA" /\ pc \in {"normality", "select", "tier", "print", "effect", "latex"}

\* the current iteration is past its test selection
TestDone ==
    \/ script = "AEG" /\ pc \in {"sig", "effect", "append", "plot"}
    \/ script = "CA" /\ pc \in {"tier", "print", "effect", "latex"}

\* the decision table of the comparison test
C1_Table(n, normal) ==
    CASE n = 2 /\ normal   -> "ttest_ind"
      [] n = 2 /\ ~normal  -> "mannwhitneyu"
      [] n >= 3 /\ normal  -> "f_oneway"
      [] n >= 3 /\ ~normal -> "kruskal"

\* C1: for a dimension with 2 groups or more, the test that is run is the one
\* the decision table gives for (number of groups, all_normal), in AEG and in
\* CA, whatever the labels present, the group sizes and Levene's result.
C1_TestByTable ==
    (TestDone /\ Len(groups_data) >= 2) =>
        called = C1_Table(Len(groups_data), all_normal)

\* C1 witness: CA has run the t-test on the two groups NoEffect and
\* Counterproductive, both screened normal.
C1_Witness ==
    /\ script = "CA" /\ pc = "print"
    /\ group_names = <<"NoEffect", "Counterproductive">>
    /\ all_normal
    /\ called = "ttest_ind"

\* C2: for a dimension with fewer than 2 groups no comparison test is run and
\* no result (test name, p-value, tier, effect size) is reported for it.
C2_InsufficientReportsNothing ==
    (InIteration /\ Len(groups_data) < 2) =>
        (called = "none" /\ out.dim # idx)

\* C3: a dimension with fewer than 2 groups never aborts the run.
C3_RunNeverAborts == pc # "aborted"

\* C4: every result block reported for a dimension carries the test result
\* computed in that dimension's own iteration.
C4_ResultFromOwnDimension == out.dim # 0 => out.src = out.dim

\* C5: a group with n < 3 is recorded non-normal without Shapiro-Wilk; a
\* group with n >= 3 is recorded normal exactly when p >= 0.05; all_normal is
\* true exactly when every group is recorded normal.
C5_NormalityScreening ==
    (Returned("ScreenAEG") \/ Returned("ScreenCA")) =>
        /\ Len(h_out.marks) = Len(h_in.arrays)
        /\ \A i \in 1..Len(h_in.arrays) :
              IF Len(h_in.arrays[i]) < 3
              THEN ~h_out.marks[i].ran /\ ~h_out.marks[i].normal
              ELSE /\ h_out.marks[i].ran
                   /\ h_out.marks[i].normal <=> (h_in.ps[i] >= 500)
        /\ h_out.all_normal <=>
              (\A i \in 1..Len(h_out.marks) : h_out.marks[i].normal)

\* C5 witness: AEG has screened a group of 3 with p exactly 0.05 as normal and
\* a group of 2 as non-normal.
C5_Witness ==
    /\ Returned("ScreenAEG")
    /\ Len(h_in.arrays) = 2
    /\ Len(h_in.arrays[1]) = 3 /\ h_in.ps[1] = 500 /\ h_out.marks[1].normal
    /\ Len(h_in.arrays[2]) = 2 /\ ~h_out.marks[2].normal
    /\ ~h_out.all_normal

\* C6: at every place a tier is assigned, p < 0.001 gives '***',
\* 0.001 <= p < 0.01 gives '**', 0.01 <= p < 0.05 gives '*', and any other p
\* gives 'n.s.'.
C6_StrictTiers ==
    (script = "unit" /\ pc = "return"
        /\ h_fn \in {"SigAEG", "SigCA", "SigPaired", "SigWilcoxon", "SigSpearman"}) =>
        /\ h_in < 10 => h_out = "***"
        /\ (10 <= h_in /\ h_in < 100) => h_out = "**"
        /\ (100 <= h_in /\ h_in < 500) => h_out = "*"
        /\ 500 <= h_in => h_out = "n.s."

\* C6 witness: the Spearman tier of p exactly 0.05 is 'n.s.'.
C6_Witness == Returned("SigSpearman") /\ h_in = 500 /\ h_out = "n.s."

AllIdentical(arrays) ==
    \A i, j \in 1..Len(Concat(arrays)) : Concat(arrays)[i] = Concat(arrays)[j]

\* C7: for 2 groups or more, none of them empty, eta-squared is a defined
\* number between 0 and 1, and it is 0 when all the values are identical.
C7_EtaInUnitInterval ==
    (Returned("EtaAEG") \/ Returned("calc_eta_squared")) =>
        /\ h_out # NaN
        /\ FLe(FZero, h_out) /\ FLe(h_out, FOne)
        /\ AllIdentical(h_in) => h_out = FZero

\* the rows of the frame whose label in `col` is `label`
C8_Rows(col, label) == {i \in 1..Len(h_in) : h_in[i][col] = label}

\* their deltas, in row order
C8_Deltas(col, label) ==
    LET rows == C8_Rows(col, label)
    IN  [k \in 1..Cardinality(rows) |->
            h_in[CHOOSE i \in rows : Cardinality({j \in rows : j <= i}) = k]
                ["Delta_STAI"]]

C8_Rank(label) == CHOOSE k \in 1..Len(JUDGMENT_LABELS) : JUDGMENT_LABELS[k] = label

\* C8: for each element, every group is named by a valid label and holds
\* exactly the deltas of the rows with that label in that element; every valid
\* label with a row has its group and none is empty; the groups are in the
\* canonical label order; the labels of the other elements change nothing.
C8_GroupConstruction ==
    (Returned("GroupsAEG") \/ Returned("GroupsCA")) =>
        \A col \in ElementSet :
            LET g == h_out[col]
            IN  /\ \A k \in 1..Len(g) :
                      /\ g[k].name \in ValidLabels
                      /\ g[k].values # <<>>
                      /\ g[k].values = C8_Deltas(col, g[k].name)
                /\ \A label \in ValidLabels :
                      C8_Rows(col, label) # {} =>
                          \E k \in 1..Len(g) : g[k].name = label
                /\ \A k, l \in 1..Len(g) :
                      k < l => C8_Rank(g[k].name) < C8_Rank(g[l].name)

\* C8 witness: AEG has grouped a frame whose first row is excluded from
\* element 1 and is in the Counterproductive group of element 2, listed after
\* the ValidCoping group of the second row.
C8_Witness ==
    /\ Returned("GroupsAEG")
    /\ h_in[1]["Element1_Obligation"] = InsufficientData
    /\ h_in[2]["Element1_Obligation"] = "NoEffect"
    /\ h_in[1]["Element2_Burden"] = "Counterproductive"
    /\ h_in[2]["Element2_Burden"] = "ValidCoping"
    /\ Names(h_out["Element1_Obligation"]) = <<"NoEffect">>
    /\ Names(h_out["Element2_Burden"]) = <<"ValidCoping", "Counterproductive">>
    /\ h_out["Element2_Burden"][2].values = <<h_in[1]["Delta_STAI"]>>

\* C9: the paired comparison selects the paired t-test exactly when both
\* Shapiro-Wilk p-values are at least 0.05, and the Wilcoxon test otherwise.
C9_PairedChoiceByNormality ==
    (script = "STAI" /\ shapiro_a # Unbound) =>
        /\ test_name = "Paired t-test" <=> (shapiro_a >= 500 /\ shapiro_b >= 500)
        /\ test_name # "Paired t-test" =>
              test_name = "Wilcoxon signed-rank test (recommended)"

C10_Code(label) ==
    IF label = "ValidCoping" THEN 1 ELSE IF label = "NoEffect" THEN 0 ELSE 0 - 1

\* the pairs of the current column whose label is defined
C10_Pairs ==
    LET rows == [i \in 1..Len(column) |-> [label |-> column[i], delta |-> Delta_STAI[i]]]
        kept == SelectSeq(rows, LAMBDA r : r.label \in ValidLabels)
    IN  [k \in 1..Len(kept) |->
            [score |-> <<C10_Code(kept[k].label)>>, delta |-> kept[k].delta]]

\* C10: the correlation of a dimension is over the pairs whose encoded label
\* is defined; it is computed exactly when there are 3 such pairs or more and
\* reported insufficient otherwise; either way the loop goes on to the next
\* dimension, and the run ends after the last one.
C10_SpearmanNeedsThreePairs ==
    /\ (script = "STAI" /\ pc \in {"loop", "done"} /\ corr.dim # 0) =>
          /\ valid_data = C10_Pairs
          /\ corr.n = Len(valid_data)
          /\ corr.computed <=> (Len(valid_data) >= 3)
          /\ corr.dim = idx - 1
    /\ (script = "STAI" /\ pc = "done") => corr.dim = Len(ELEMENTS)

\* C10 witness: the first dimension was reported insufficient with 2 pairs
\* and the second is being evaluated on 3 pairs.
C10_Witness ==
    /\ script = "STAI" /\ pc = "corr" /\ idx = 2
    /\ corr.dim = 1 /\ corr.n = 2 /\ ~corr.computed
    /\ Len(valid_data) = 3

\* the position of a dimension in the fixed order
ElementIndex(name) == CHOOSE d \in 1..Len(ELEMENTS) : ELEMENTS[d] = name

\* the groups of the dimension being evaluated, from its own observations
C11_Groups ==
    GroupsAEG(Frame(Delta_STAI, column, ELEMENTS[idx]), ELEMENTS[idx])

\* the row of the dimension being evaluated: its name, its groups, the
\* p-value its own comparison returned, the tier of that p-value and the
\* effect size of its groups
C11_Row ==
    [Element |-> ELEMENTS[idx], n_groups |-> Len(C11_Groups),
     group_names |-> Names(C11_Groups), p_value |-> p_value,
     significance |-> SigAEG(p_value),
     effect_size |-> Tabulated(EtaTableAEG, Arrays(C11_Groups))]

\* the rows' own values agree: the tier is that of the row's p-value
C11_RowsCoherent ==
    \A i \in 1..Len(results_summary) :
        /\ results_summary[i].significance = SigAEG(results_summary[i].p_value)
        /\ results_summary[i].n_groups = Len(results_summary[i].group_names)

\* the rows are in the fixed order of the dimensions, one at most for each
C11_Ordered ==
    \A i, j \in 1..Len(results_summary) :
        i < j => ElementIndex(results_summary[i].Element)
                    < ElementIndex(results_summary[j].Element)

\* C11 as stated: after the loop of Analyze_elements_groups.py the summary
\* holds one row for each label dimension, in the fixed order, each with
\* the name of its dimension and values that belong together.
C11_OneRowPerDimension ==
    (script = "AEG" /\ pc = "done") =>
        /\ Len(results_summary) = Len(ELEMENTS)
        /\ \A d \in 1..Len(results_summary) :
              results_summary[d].Element = ELEMENTS[d]
        /\ C11_RowsCoherent

\* C11 amended: the summary of Analyze_elements_groups.py gets one row for
\* each label dimension that has 2 groups or more and none for the others,
\* in the fixed order of the dimensions; the row is appended in the
\* iteration of its dimension and carries that dimension's name, group
\* names, p-value, tier and effect size; rows are never changed afterwards.
C11_RowPerComparedDimension ==
    [][script = "AEG" =>
        /\ results_summary' # results_summary =>
              /\ Len(groups_data) >= MIN_GROUPS
              /\ p_dim = idx
              /\ results_summary' = Append(results_summary, C11_Row)
        /\ idx' # idx =>
              /\ idx' = idx + 1
              /\ Len(SelectSeq(results_summary',
                               LAMBDA r : r.Element = ELEMENTS[idx]))
                    = IF Len(groups_data) >= MIN_GROUPS THEN 1 ELSE 0
        /\ pc' = "done" => C11_Ordered' /\ C11_RowsCoherent'
      ]_vars

\* C11 witness: the run has ended with two rows, for the first and the third
\* dimension; the second had fewer than 2 groups.
C11_Witness ==
    /\ script = "AEG" /\ pc = "done"
    /\ Len(results_summary) = 2
    /\ results_summary[1].Element = ELEMENTS[1]
    /\ results_summary[2].Element = ELEMENTS[3]

\* what each script does with the input of the pass that has returned
C12_AEG(p_levene) ==
    CompareAEG(CoreFrame(h_in), ELEMENTS[1], h_in.ps, h_in.p, p_levene)

C12_CA == CompareCA(CoreFrame(h_in), ELEMENTS[1], h_in.ps, h_in.p, h_in.prior)

C12_Returned == Returned("CompareAEG") \/ Returned("CompareCA")

\* with 2 or 3 groups both scripts build the same ordered groups, derive the
\* same all_normal, call the same test and assign the same tier of
\* significance and the same tier of effect size
C12_Same(aeg, ca) ==
    /\ h_out \in {aeg, ca}
    /\ Len(ca.group_names) >= MIN_GROUPS =>
          aeg = ca /\ ca.reported /\ ~ca.aborted

C12_SameOnSufficient ==
    C12_Returned => \A p_levene \in LevenePs : C12_Same(C12_AEG(p_levene), C12_CA)

\* with fewer than 2 groups both scripts report nothing
C12_Nothing(aeg, ca) ==
    Len(ca.group_names) < MIN_GROUPS => ~aeg.reported /\ ~ca.reported

C12_NothingOnInsufficient ==
    C12_Returned => \A p_levene \in LevenePs : C12_Nothing(C12_AEG(p_levene), C12_CA)

\* C12: on the same observations and the same label dimension the two
\* scripts build the same ordered groups, derive the same all_normal, choose
\* the same test and assign the same significance tier and the same
\* effect-size tier when 2 or 3 groups survive, and both report nothing for
\* the dimension when fewer than 2 do.
C12_CoreEquivalent == C12_SameOnSufficient /\ C12_NothingOnInsufficient

====
